---- MODULE Spec2Model ----
(***************************************************************************)
(* Dual Bluetooth stream player (blue.py): the drift-correcting stream     *)
(* callback built by AudioManager._callback_factory, the channel           *)
(* preparation of AudioManager.__init__ and the session run by main().     *)
(*                                                                         *)
(* Time is counted in clock ticks, TicksPerSecond ticks to a second.       *)
(* Sample values are the integer PCM numerators; the division by           *)
(* 2^(8*sample_width-1) of the normalisation maps 0 to 0 and is injective, *)
(* so silence and sample identity are preserved.                           *)
(***************************************************************************)
EXTENDS Integers, Sequences, FiniteSets, TLC

\* ---- bounds of the model ----
MaxLen == 3          \* longest short channel buffer
MaxFrames == 2       \* largest small frame_count a host passes
MaxPulls == 9       \* callback invocations per cursor
MaxStalls == 1       \* scheduling stalls of the wall clock per run
MaxReadGap == 1      \* ticks between the two time.time() reads of a first call
StallSamples == 3000 \* samples' worth of time one stall lasts
MaxOffset == 1       \* largest sync offset, in milliseconds
MaxPeriods == 1      \* block periods the wall clock advances during a session
MaxSegLen == 9       \* longest mono segment handed to the channel preparation
MaxDirs == 3         \* tempfile.mkdtemp() calls per StemSplitter

\* ---- program constants ----
buffer_size == 1024
TicksPerSecond == 16000

None == -1
Streams == {1, 2}
paContinue == "paContinue"
paComplete == "paComplete"
NoFlag == "none"

Abs(x) == IF x < 0 THEN -x ELSE x
Min(a, b) == IF a < b THEN a ELSE b
Max(a, b) == IF a > b THEN a ELSE b
CeilDiv(a, b) == (a + b - 1) \div b

\* frame rates of the decoded file
SampleRates == {8000}
\* frame counts a host passes: small ones, and the frames_per_buffer of the stream
FrameCounts == (1..MaxFrames) \cup {buffer_size}
\* <<len(channel_data), frame_count>> of the cursors under test: every short
\* buffer with every frame count, and one second of 8000 Hz audio in blocks
\* of buffer_size
Scenarios == ((0..MaxLen) \X FrameCounts) \cup {<<8000, buffer_size>>}

\* a ramp waveform of n samples, none of them zero
Ramp(n) == [i \in 1..n |-> i]

VARIABLES
    now,            \* time.time(), in ticks
    sample_rate,    \* self.sample_rate
    frame_count,    \* frame_count[c]: the block size the host asks cursor c for
    channel_data,   \* channel_data[c]: the array captured by callback c
    position,       \* position[c]: nonlocal position of callback c
    start_time,     \* start_time[c]: nonlocal start_time of callback c, or None
    out,            \* out[c]: the block last returned by callback c
    flag,           \* flag[c]: the flag last returned by callback c, or NoFlag
    pulls,          \* pulls[c]: invocations of callback c so far
    completes,      \* completes[c]: invocations of c that returned paComplete
    corrections,    \* corrections[c]: "Correcting drift" messages printed by c
    instep,         \* instep[c]: every call so far found expected_position = position
    stalls,         \* stalls of the wall clock so far
    audio,          \* the file as decoded: [ok, channels, frames]
    sync_offset_arg,\* main's argument sync_offset_ms
    sync_offset_ms, \* audio_manager.sync_offset_ms
    pc,             \* where main stands
    connected,      \* connected[d]: BluetoothDevice.connected of device d
    disconnects,    \* disconnects[d]: disconnect() calls device d received
    stream,         \* stream[s]: state of the PyAudio stream s
    starts,         \* starts[s]: start_stream() calls main issued to stream s
    ran,            \* ran[s]: stream s has been started
    linked,         \* linked[d]: a connect() of device d has returned True
    failed,         \* what has failed so far: "load", "connect", "lookup", "create",
                    \* "start", "stop", "close"
    interrupted,    \* a KeyboardInterrupt was delivered after both start_stream() calls
    signalled,      \* a KeyboardInterrupt was delivered
    exit_code,      \* the exit status of the script, or None while it runs
    num_stems,      \* StemSplitter: self.num_stems
    temp_dir,       \* StemSplitter: self.temp_dir, or None
    tmp_dirs,       \* the directories made by tempfile.mkdtemp() that exist
    made,           \* tempfile.mkdtemp() calls so far; the n-th returns directory n
    stems,          \* StemSplitter: the keys of self.stems
    last_call       \* the StemSplitter method called last, "init" after __init__

cursorVars == <<frame_count, channel_data, position, start_time, out, flag,
                pulls, completes, corrections, instep>>
sessionVars == <<audio, sync_offset_arg, sync_offset_ms, pc, connected, disconnects,
                 stream, starts, ran, linked, failed, interrupted, signalled>>
stemVars == <<num_stems, temp_dir, tmp_dirs, made, stems, last_call>>
outside == <<exit_code, stemVars>>
vars == <<now, sample_rate, stalls, cursorVars, sessionVars, outside>>
cursorState == <<position, start_time, out, flag, pulls, completes, corrections, instep>>
devices == <<connected, disconnects, linked>>
streams == <<stream, starts, ran>>
signals == <<interrupted, signalled>>
inputs == <<audio, sync_offset_arg, sample_rate, stalls>>

\* ---- pure helpers of the callback ----

\* numpy.zeros(n)
Zeros(n) == [i \in 1..n |-> 0]

\* int(x) of Python truncates toward zero
IntTrunc(num, den) ==
    IF num >= 0 THEN num \div den ELSE -((-num) \div den)

\* int(elapsed_time * self.sample_rate), elapsed in ticks
ExpectedPosition(elapsed, rate) == IntTrunc(elapsed * rate, TicksPerSecond)

\* a drift check that also fires at exactly two buffer sizes
SignificantDriftInclusive(drift) == Abs(drift) >= buffer_size * 2

\* abs(drift) > self.buffer_size * 2
SignificantDrift(drift) == Abs(drift) > buffer_size * 2

\* a slice index of Python clamped into 0..n
SliceIndex(i, n) == IF i < 0 THEN Max(0, n + i) ELSE Min(i, n)

\* data[lo:hi]
Slice(data, lo, hi) ==
    LET a == SliceIndex(lo, Len(data))
        b == SliceIndex(hi, Len(data))
    IN  IF a < b THEN SubSeq(data, a + 1, b) ELSE << >>

\* the short tail block returned as it is
PadNone(block, n) == block

\* np.pad(out_data, (0, n - len(out_data))) when len(out_data) < n
PadTo(block, n) ==
    IF Len(block) < n THEN block \o Zeros(n - Len(block)) ELSE block

\* the drift check without abs(): a cursor ahead of the clock is never pulled back
CorrectedForwardOnly(pos, exp) == IF exp - pos > buffer_size * 2 THEN exp ELSE pos

\* position after the drift check
Corrected(pos, exp) == IF SignificantDrift(exp - pos) THEN exp ELSE pos

\* position > len(channel_data): the end test off by one
ExhaustedLate(pos, data) == pos > Len(data)

\* position >= len(channel_data)
Exhausted(pos, data) == pos >= Len(data)

\* position += frame_count - 1: consecutive blocks overlap by one sample
AdvanceOverlap(pos, n) == pos + n - 1

\* position += frame_count
Advance(pos, n) == pos + n

\* np.zeros(self.buffer_size): silence of the stream's block size
SilentBufferBlock(n) == Zeros(buffer_size)

\* the block returned with paComplete
SilentBlock(n) == Zeros(n)

\* channel_data[position + 1:position + 1 + frame_count]: the slice one sample late
DataBlockShifted(data, pos, n) == PadTo(Slice(data, pos + 1, pos + 1 + n), n)

\* the block returned with paContinue
DataBlock(data, pos, n) == PadTo(Slice(data, pos, pos + n), n)

\* ---- the callback ----

\* one variable on the AudioManager, written by both callbacks
SharedCell(cells, c, v) == [x \in DOMAIN cells |-> v]

\* nonlocal position, start_time: each callback writes the cells of its own closure
Nonlocal(cells, c, v) == [cells EXCEPT ![c] = v]

\* callback(in_data, n, time_info, status) of cursor c; gap ticks pass between
\* the two time.time() reads of the first call
callback(c, n, gap) ==
    LET first == start_time[c] = None
        st    == IF first THEN now ELSE start_time[c]
        t     == IF first THEN now + gap ELSE now
        exp   == ExpectedPosition(t - st, sample_rate)
        pos   == Corrected(position[c], exp)
    IN  /\ now' = t
        /\ start_time' = Nonlocal(start_time, c, st)
        /\ corrections' = [corrections EXCEPT ![c] =
                             IF SignificantDrift(exp - position[c])
                             THEN @ + 1 ELSE @]
        /\ instep' = [instep EXCEPT ![c] = @ /\ exp = position[c]]
        /\ pulls' = [pulls EXCEPT ![c] = @ + 1]
        /\ IF Exhausted(pos, channel_data[c])
           THEN /\ position' = Nonlocal(position, c, pos)
                /\ out' = [out EXCEPT ![c] = SilentBlock(n)]
                /\ flag' = [flag EXCEPT ![c] = paComplete]
                /\ completes' = [completes EXCEPT ![c] = @ + 1]
           ELSE /\ position' = Nonlocal(position, c, Advance(pos, n))
                /\ out' = [out EXCEPT ![c] = DataBlock(channel_data[c], pos, n)]
                /\ flag' = [flag EXCEPT ![c] = paContinue]
                /\ UNCHANGED completes
        /\ UNCHANGED <<sample_rate, frame_count, channel_data>>

\* ---- a cursor with no session around it ----

Devices == {1, 2}

\* no session of main is running
NoSession ==
    /\ audio = [ok |-> TRUE, channels |-> 2, frames |-> 0]
    /\ sync_offset_arg = 0
    /\ sync_offset_ms = 0
    /\ connected = [d \in Devices |-> FALSE]
    /\ disconnects = [d \in Devices |-> 0]
    /\ stream = [c \in Streams |-> "none"]
    /\ starts = [c \in Streams |-> 0]
    /\ ran = [c \in Streams |-> FALSE]
    /\ linked = [d \in Devices |-> FALSE]
    /\ failed = {}
    /\ interrupted = FALSE
    /\ signalled = FALSE
    /\ exit_code = None

\* no StemSplitter has been constructed
NoStemSplitter ==
    /\ num_stems = 4
    /\ temp_dir = None
    /\ tmp_dirs = {}
    /\ made = 0
    /\ stems = {}
    /\ last_call = "none"

IdleSession == pc = "idle" /\ NoSession /\ NoStemSplitter

\* ---- the cursor under test: one callback pulled by a host ----

\* ticks in which n samples play at the given rate
TicksFor(n, rate) == CeilDiv(n * TicksPerSecond, rate)

\* _callback_factory(channel_data): position = 0, start_time = None
InitCursor ==
    /\ now = 0
    /\ stalls = 0
    /\ sample_rate \in SampleRates
    /\ \E sc \in Scenarios :
          /\ channel_data = [c \in Streams |-> IF c = 1 THEN Ramp(sc[1]) ELSE << >>]
          /\ frame_count = [c \in Streams |-> sc[2]]
    /\ position = [c \in Streams |-> 0]
    /\ start_time = [c \in Streams |-> None]
    /\ out = [c \in Streams |-> << >>]
    /\ flag = [c \in Streams |-> NoFlag]
    /\ pulls = [c \in Streams |-> 0]
    /\ completes = [c \in Streams |-> 0]
    /\ corrections = [c \in Streams |-> 0]
    /\ instep = [c \in Streams |-> TRUE]
    /\ IdleSession

\* the host asks cursor 1 for its next block
Pull ==
    /\ pulls[1] < MaxPulls
    /\ \E gap \in 0..MaxReadGap : callback(1, frame_count[1], gap)
    /\ UNCHANGED <<stalls, sessionVars, outside>>

\* one block period of cursor 1 passes on the wall clock
Period ==
    /\ start_time[1] # None
    /\ now + TicksFor(frame_count[1], sample_rate)
          <= MaxPulls * TicksFor(frame_count[1], sample_rate)
    /\ now' = now + TicksFor(frame_count[1], sample_rate)
    /\ UNCHANGED <<sample_rate, stalls, cursorVars, sessionVars, outside>>

\* the callback thread is not scheduled for 3000 samples' worth of time
Stall ==
    /\ start_time[1] # None
    /\ stalls < MaxStalls
    /\ stalls' = stalls + 1
    /\ now' = now + TicksFor(StallSamples, sample_rate)
    /\ UNCHANGED <<sample_rate, cursorVars, sessionVars, outside>>

NextCursor == Pull \/ Period \/ Stall

SpecCursor == InitCursor /\ [][NextCursor]_vars

\* ---- AudioManager.__init__ ----

\* self.sync_offset_ms as __init__ sets it before it prepares the channels
InitSyncOffset == 0

\* the two mono segments of split_to_mono(): distinct samples, none zero
DecodedLeft(n) == Ramp(n)
DecodedRight(n) == [i \in 1..n |-> 100 + i]

\* round() of Python 3: to the nearest integer, ties to the even one
RoundHalfEven(num, den) ==
    LET q == num \div den
        r == num % den
    IN  IF 2 * r < den THEN q
        ELSE IF 2 * r > den THEN q + 1
        ELSE IF q % 2 = 0 THEN q ELSE q + 1

\* len(segment): the duration in milliseconds
LenMs(seg, rate) == RoundHalfEven(1000 * Len(seg), rate)

\* AudioSegment.silent(duration=ms), at the frame rate of the segment it joins
Silent(ms, rate) == Zeros((rate * ms) \div 1000)

\* lines 49-54: silence before the left (off > 0) or the right (off < 0) channel
OffsetLeft(left, off, rate) == IF off > 0 THEN Silent(off, rate) \o left ELSE left
OffsetRight(right, off, rate) == IF off < 0 THEN Silent(-off, rate) \o right ELSE right

\* lines 57-61: the segment padded to the longer of the two durations
Equalized(seg, other, rate) ==
    LET max_length == Max(LenMs(seg, rate), LenMs(other, rate))
    IN  IF LenMs(seg, rate) < max_length
        THEN seg \o Silent(max_length - LenMs(seg, rate), rate)
        ELSE seg

\* <<left_channel, right_channel>> of AudioManager(audio_file)
AudioManagerInit(frames, rate) ==
    LET left  == OffsetLeft(DecodedLeft(frames), InitSyncOffset, rate)
        right == OffsetRight(DecodedRight(frames), InitSyncOffset, rate)
    IN  <<Equalized(left, right, rate), Equalized(right, left, rate)>>

\* ---- the channel preparation under test: lines 48-61 on any pair of segments ----

\* self.left_audio and self.right_audio hold two mono segments of any lengths
InitChannels ==
    /\ now = 0
    /\ stalls = 0
    /\ sample_rate \in SampleRates
    /\ \E nl \in 0..MaxSegLen, nr \in 0..MaxSegLen :
          channel_data = <<DecodedLeft(nl), DecodedRight(nr)>>
    /\ frame_count = [c \in Streams |-> buffer_size]
    /\ position = [c \in Streams |-> 0]
    /\ start_time = [c \in Streams |-> None]
    /\ out = [c \in Streams |-> << >>]
    /\ flag = [c \in Streams |-> NoFlag]
    /\ pulls = [c \in Streams |-> 0]
    /\ completes = [c \in Streams |-> 0]
    /\ corrections = [c \in Streams |-> 0]
    /\ instep = [c \in Streams |-> TRUE]
    /\ pc = "split"
    /\ NoSession
    /\ NoStemSplitter

\* lines 49-54 with the sync_offset_ms of line 42
ApplyOffset ==
    /\ pc = "split"
    /\ pc' = "shifted"
    /\ channel_data' = <<OffsetLeft(channel_data[1], InitSyncOffset, sample_rate),
                         OffsetRight(channel_data[2], InitSyncOffset, sample_rate)>>
    /\ UNCHANGED <<now, sample_rate, stalls, frame_count, cursorState, audio,
                   sync_offset_arg, sync_offset_ms, devices, streams, failed, signals,
                   outside>>

\* lines 57-61
Equalize ==
    /\ pc = "shifted"
    /\ pc' = "built"
    /\ channel_data' = <<Equalized(channel_data[1], channel_data[2], sample_rate),
                         Equalized(channel_data[2], channel_data[1], sample_rate)>>
    /\ UNCHANGED <<now, sample_rate, stalls, frame_count, cursorState, audio,
                   sync_offset_arg, sync_offset_ms, devices, streams, failed, signals,
                   outside>>

NextChannels == ApplyOffset \/ Equalize

SpecChannels == InitChannels /\ [][NextChannels]_vars

\* a constructor without the channel check of lines 37-38
LoadFailsUndecodable(a) == ~a.ok

\* AudioManager(audio_file) raises: the file does not decode or is not stereo
LoadFails(a) == ~a.ok \/ a.channels # 2

\* ---- main ----

\* the files main is given, as decoded
Audios ==
    {[ok |-> TRUE, channels |-> 2, frames |-> n] : n \in {0, MaxLen}}
      \cup {[ok |-> FALSE, channels |-> 2, frames |-> 0],
            [ok |-> TRUE, channels |-> 1, frames |-> MaxLen]}
Offsets == (0 - MaxOffset)..MaxOffset
\* <<file, sync offset>> of the runs of main: every file without an offset,
\* and the longest stereo file with every offset
Runs ==
    (Audios \X {0})
      \cup ({[ok |-> TRUE, channels |-> 2, frames |-> MaxLen]} \X Offsets)

\* main between its two start_stream() calls having returned and its return
PlayingPcs == {"poll", "stop1", "stop2", "close1", "close2", "disc1", "disc2"}
HandlerPcs == {"handler1", "handler2"}
FinalPcs == {"returned", "raised"}

Init ==
    /\ now = 0
    /\ stalls = 0
    /\ sample_rate \in SampleRates
    /\ \E run \in Runs :
          /\ audio = run[1]
          /\ sync_offset_arg = run[2]
    /\ sync_offset_ms = 0
    /\ pc = "load"
    /\ channel_data = [c \in Streams |-> << >>]
    /\ frame_count = [c \in Streams |-> buffer_size]
    /\ position = [c \in Streams |-> 0]
    /\ start_time = [c \in Streams |-> None]
    /\ out = [c \in Streams |-> << >>]
    /\ flag = [c \in Streams |-> NoFlag]
    /\ pulls = [c \in Streams |-> 0]
    /\ completes = [c \in Streams |-> 0]
    /\ corrections = [c \in Streams |-> 0]
    /\ instep = [c \in Streams |-> TRUE]
    /\ connected = [d \in Devices |-> FALSE]
    /\ disconnects = [d \in Devices |-> 0]
    /\ linked = [d \in Devices |-> FALSE]
    /\ stream = [c \in Streams |-> "none"]
    /\ starts = [c \in Streams |-> 0]
    /\ ran = [c \in Streams |-> FALSE]
    /\ failed = {}
    /\ interrupted = FALSE
    /\ signalled = FALSE
    /\ exit_code = None
    /\ NoStemSplitter

\* lines 159-174: construct the AudioManager, store the offset, and construct
\* it again when the offset is not 0
Load ==
    /\ pc = "load"
    /\ IF LoadFails(audio)
       THEN /\ pc' = "returned"
            /\ failed' = failed \cup {"load"}
            /\ UNCHANGED <<channel_data, sync_offset_ms>>
       ELSE /\ pc' = "connect1"
            /\ channel_data' = AudioManagerInit(audio.frames, sample_rate)
            /\ sync_offset_ms' = sync_offset_arg
            /\ UNCHANGED failed
    /\ UNCHANGED <<now, frame_count, cursorState, devices, streams, inputs, outside, signals>>

\* where main goes when connect() of device d returns False (lines 195-206)
OnConnectFailedNoUndo(d) == "returned"
OnConnectFailed(d) == IF d = 1 THEN "returned" ELSE "undo1"

\* BluetoothDevice.disconnect(): the call is made; connected becomes False
\* unless running bluetoothconnector raises
Disconnect(d) ==
    /\ disconnects' = [disconnects EXCEPT ![d] = @ + 1]
    /\ \E raised \in BOOLEAN :
          connected' = [connected EXCEPT ![d] = IF raised THEN @ ELSE FALSE]
    /\ UNCHANGED linked

\* lines 195 and 202: deviceN.connect()
Connect(d) ==
    /\ pc = IF d = 1 THEN "connect1" ELSE "connect2"
    /\ \E ok \in BOOLEAN :
          /\ connected' = [connected EXCEPT ![d] = ok]
          /\ linked' = [linked EXCEPT ![d] = ok]
          /\ pc' = IF ok THEN (IF d = 1 THEN "connect2" ELSE "lookup")
                   ELSE OnConnectFailed(d)
          /\ failed' = IF ok THEN failed ELSE failed \cup {"connect"}
    /\ UNCHANGED <<now, frame_count, channel_data, sync_offset_ms, cursorState,
                   disconnects, streams, inputs, outside, signals>>

\* line 205: device1.disconnect() after device2 failed to connect
Undo ==
    /\ pc = "undo1"
    /\ Disconnect(1)
    /\ pc' = "returned"
    /\ UNCHANGED <<now, frame_count, channel_data, sync_offset_ms, cursorState,
                   streams, inputs, outside, failed, signals>>

\* lines 216-219: both devices are looked up by name; each is found or is not
Lookup ==
    /\ pc = "lookup"
    /\ \E found \in [Devices -> BOOLEAN] :
          /\ pc' = IF found[1] /\ found[2] THEN "create1" ELSE "report"
          /\ failed' = IF found[1] /\ found[2] THEN failed ELSE failed \cup {"lookup"}
    /\ UNCHANGED <<now, frame_count, channel_data, sync_offset_ms, cursorState,
                   devices, streams, inputs, outside, signals>>

\* lines 220-226: the report of the missing device enumerates audio_devices,
\* a name main never binds: NameError, caught at line 267
Report ==
    /\ pc = "report"
    /\ pc' = "handler1"
    /\ UNCHANGED <<now, frame_count, channel_data, sync_offset_ms, cursorState,
                   devices, streams, inputs, outside, failed, signals>>

\* the state of a stream PyAudio.open() returns: open() is called without
\* start=False, so the stream is started by it
Opened == "active"

\* lines 231 and 233: create_stream(); pa.open() returns a stream or raises
Create(s) ==
    /\ pc = IF s = 1 THEN "create1" ELSE "create2"
    /\ \E ok \in BOOLEAN :
          IF ok
          THEN /\ stream' = [stream EXCEPT ![s] = Opened]
               /\ ran' = [ran EXCEPT ![s] = Opened = "active"]
               /\ frame_count' = [frame_count EXCEPT ![s] = buffer_size]
               /\ position' = [position EXCEPT ![s] = 0]
               /\ start_time' = [start_time EXCEPT ![s] = None]
               /\ pc' = IF s = 1 THEN "create2" ELSE "start1"
               /\ UNCHANGED failed
          ELSE /\ pc' = "handler1"
               /\ failed' = failed \cup {"create"}
               /\ UNCHANGED <<stream, ran, frame_count, position, start_time>>
    /\ UNCHANGED <<now, channel_data, sync_offset_ms, out, flag, pulls, completes,
                   corrections, instep, devices, starts, inputs, outside, signals>>

\* lines 246 and 249: start_stream(); a stream that is not stopped stays as it is
Start(s) ==
    /\ pc = IF s = 1 THEN "start1" ELSE "start2"
    /\ starts' = [starts EXCEPT ![s] = @ + 1]
    /\ \E ok \in BOOLEAN :
          IF ok
          THEN /\ stream' = [stream EXCEPT ![s] = IF @ = "stopped" THEN "active" ELSE @]
               /\ ran' = [ran EXCEPT ![s] = TRUE]
               /\ pc' = IF s = 1 THEN "start2" ELSE "poll"
               /\ UNCHANGED failed
          ELSE /\ pc' = "handler1"
               /\ failed' = failed \cup {"start"}
               /\ UNCHANGED <<stream, ran>>
    /\ UNCHANGED <<now, frame_count, channel_data, sync_offset_ms, cursorState,
                   devices, inputs, outside, signals>>

\* stream.is_active()
IsActive(s) == stream[s] = "active"

\* lines 253-254: the poll loop sleeps while a stream is active
Poll ==
    /\ pc = "poll"
    /\ pc' = IF IsActive(1) \/ IsActive(2) THEN "poll" ELSE "stop1"
    /\ UNCHANGED <<now, frame_count, channel_data, sync_offset_ms, cursorState,
                   devices, streams, inputs, outside, failed, signals>>

\* lines 260-261: stop_stream()
Stop(s) ==
    /\ pc = IF s = 1 THEN "stop1" ELSE "stop2"
    /\ \E ok \in BOOLEAN :
          IF ok
          THEN /\ stream' = [stream EXCEPT ![s] = "stopped"]
               /\ pc' = IF s = 1 THEN "stop2" ELSE "close1"
               /\ UNCHANGED failed
          ELSE /\ pc' = "handler1"
               /\ failed' = failed \cup {"stop"}
               /\ UNCHANGED stream
    /\ UNCHANGED <<now, frame_count, channel_data, sync_offset_ms, cursorState,
                   devices, starts, ran, inputs, outside, signals>>

\* lines 262-263: close()
Close(s) ==
    /\ pc = IF s = 1 THEN "close1" ELSE "close2"
    /\ \E ok \in BOOLEAN :
          IF ok
          THEN /\ stream' = [stream EXCEPT ![s] = "closed"]
               /\ pc' = IF s = 1 THEN "close2" ELSE "disc1"
               /\ UNCHANGED failed
          ELSE /\ pc' = "handler1"
               /\ failed' = failed \cup {"close"}
               /\ UNCHANGED stream
    /\ UNCHANGED <<now, frame_count, channel_data, sync_offset_ms, cursorState,
                   devices, starts, ran, inputs, outside, signals>>

\* lines 264-265: deviceN.disconnect() of the cleanup
Release(d) ==
    /\ pc = IF d = 1 THEN "disc1" ELSE "disc2"
    /\ Disconnect(d)
    /\ pc' = IF d = 1 THEN "disc2" ELSE "returned"
    /\ UNCHANGED <<now, frame_count, channel_data, sync_offset_ms, cursorState,
                   streams, inputs, outside, failed, signals>>

\* lines 267-274: deviceN.disconnect() of the exception handler
Handler(d) ==
    /\ pc = IF d = 1 THEN "handler1" ELSE "handler2"
    /\ Disconnect(d)
    /\ pc' = IF d = 1 THEN "handler2" ELSE "returned"
    /\ UNCHANGED <<now, frame_count, channel_data, sync_offset_ms, cursorState,
                   streams, inputs, outside, failed, signals>>

\* where a KeyboardInterrupt takes main: line 255 catches it in the poll loop,
\* the bare except of line 273 swallows it in the handler, and nothing else
\* catches it (except Exception does not)
OnInterrupt(at) ==
    IF at = "poll" THEN "stop1"
    ELSE IF at \in HandlerPcs THEN "returned"
    ELSE "raised"

\* a KeyboardInterrupt is delivered to the main thread
Interrupt ==
    /\ pc \notin FinalPcs
    /\ pc' = OnInterrupt(pc)
    /\ interrupted' = (interrupted \/ pc \in PlayingPcs)
    /\ signalled' = TRUE
    /\ UNCHANGED <<now, frame_count, channel_data, sync_offset_ms, cursorState,
                   devices, streams, inputs, outside, failed>>

\* the host invokes the callback of an active stream while the process runs;
\* paComplete ends the stream
HostCallback(s) ==
    /\ pc \notin FinalPcs
    /\ IsActive(s)
    /\ pulls[s] < MaxPulls
    /\ \E gap \in 0..MaxReadGap : callback(s, frame_count[s], gap)
    /\ stream' = [stream EXCEPT ![s] = IF flag'[s] = paComplete THEN "finished" ELSE @]
    /\ UNCHANGED <<stalls, audio, sync_offset_arg, sync_offset_ms, pc, devices,
                   starts, ran, failed, signals, outside>>

\* one block period passes on the wall clock while a stream plays
Tick ==
    /\ pc \notin FinalPcs
    /\ IsActive(1) \/ IsActive(2)
    /\ now + TicksFor(buffer_size, sample_rate)
          <= MaxPeriods * TicksFor(buffer_size, sample_rate)
    /\ now' = now + TicksFor(buffer_size, sample_rate)
    /\ UNCHANGED <<sample_rate, stalls, cursorVars, sessionVars, outside>>

\* lines 276-318 once main(args.audio_file, args.sync_offset) is over. A
\* KeyboardInterrupt that left main ends the process with the status of SIGINT.
\* When main returned (it returns None on every path and nothing calls
\* sys.exit), the try of lines 293-315 raises NameError on AudioSplitter and
\* prints it, and line 318 calls main() without audio_file_path: TypeError,
\* uncaught, status 1
ExitStatus(at) == IF at = "raised" THEN 130 ELSE 1

\* the script ends
Exit ==
    /\ pc \in FinalPcs
    /\ exit_code = None
    /\ exit_code' = ExitStatus(pc)
    /\ UNCHANGED <<now, sample_rate, stalls, cursorVars, sessionVars, stemVars>>

Next ==
    \/ Load
    \/ \E d \in Devices : Connect(d)
    \/ Undo
    \/ Lookup
    \/ Report
    \/ \E s \in Streams : Create(s)
    \/ \E s \in Streams : Start(s)
    \/ Poll
    \/ \E s \in Streams : Stop(s)
    \/ \E s \in Streams : Close(s)
    \/ \E d \in Devices : Release(d)
    \/ \E d \in Devices : Handler(d)
    \/ Interrupt
    \/ \E s \in Streams : HostCallback(s)
    \/ Tick
    \/ Exit

Spec == Init /\ [][Next]_vars

\* a step of the main thread or of the interpreter ending the script
MainStep ==
    \/ Load
    \/ \E d \in Devices : Connect(d)
    \/ Undo
    \/ Lookup
    \/ Report
    \/ \E s \in Streams : Create(s)
    \/ \E s \in Streams : Start(s)
    \/ Poll
    \/ \E s \in Streams : Stop(s)
    \/ \E s \in Streams : Close(s)
    \/ \E d \in Devices : Release(d)
    \/ \E d \in Devices : Handler(d)
    \/ Exit

\* the main thread keeps running, and PortAudio keeps invoking the callback of
\* every active stream; the KeyboardInterrupt and the clock are left free
SpecLive ==
    /\ Init
    /\ [][Next]_vars
    /\ WF_vars(MainStep)
    /\ \A s \in Streams : WF_vars(HostCallback(s))

\* ---- StemSplitter (stem_splitter.py) ----

\* the values __init__ accepts for num_stems
NumStems == {2, 4, 5}

\* stem_files of lines 55-60, without the .wav extension, in loading order
StemFiles(n) ==
    IF n = 2 THEN <<"vocals", "accompaniment">>
    ELSE IF n = 4 THEN <<"vocals", "drums", "bass", "other">>
    ELSE <<"vocals", "drums", "bass", "piano", "other">>

\* StemSplitter(num_stems)
InitStem ==
    /\ now = 0
    /\ stalls = 0
    /\ sample_rate \in SampleRates
    /\ channel_data = [c \in Streams |-> << >>]
    /\ frame_count = [c \in Streams |-> buffer_size]
    /\ position = [c \in Streams |-> 0]
    /\ start_time = [c \in Streams |-> None]
    /\ out = [c \in Streams |-> << >>]
    /\ flag = [c \in Streams |-> NoFlag]
    /\ pulls = [c \in Streams |-> 0]
    /\ completes = [c \in Streams |-> 0]
    /\ corrections = [c \in Streams |-> 0]
    /\ instep = [c \in Streams |-> TRUE]
    /\ pc = "idle"
    /\ NoSession
    /\ num_stems \in NumStems
    /\ temp_dir = None
    /\ tmp_dirs = {}
    /\ made = 0
    /\ stems = {}
    /\ last_call = "init"

\* separate(audio_file): a new temporary directory becomes self.temp_dir; then
\* Spleeter raises (self.stems is left as it was), or the stems are loaded in
\* order into a fresh self.stems until one fails to load or all are in
separate ==
    /\ made < MaxDirs
    /\ made' = made + 1
    /\ temp_dir' = made + 1
    /\ tmp_dirs' = tmp_dirs \cup {made + 1}
    /\ \/ stems' = stems
       \/ \E k \in 0..Len(StemFiles(num_stems)) :
             stems' = {StemFiles(num_stems)[i] : i \in 1..k}
    /\ last_call' = "separate"
    /\ UNCHANGED <<now, sample_rate, stalls, cursorVars, sessionVars, exit_code, num_stems>>

\* cleanup(): self.temp_dir, when set and existing, is removed and forgotten
cleanup ==
    /\ IF temp_dir # None /\ temp_dir \in tmp_dirs
       THEN /\ tmp_dirs' = tmp_dirs \ {temp_dir}
            /\ temp_dir' = None
       ELSE UNCHANGED <<tmp_dirs, temp_dir>>
    /\ last_call' = "cleanup"
    /\ UNCHANGED <<now, sample_rate, stalls, cursorVars, sessionVars, exit_code,
                   num_stems, made, stems>>

NextStem == separate \/ cleanup

SpecStem == InitStem /\ [][NextStem]_vars

\* ---- properties of the cursor ----

\* expected_position as computed by a call that has just been made
CallExpected(c) == ExpectedPosition(now' - start_time'[c], sample_rate)
\* callback c is invoked in this step
Called(c) == pulls'[c] # pulls[c]
\* the k-th block of n entries of data read sequentially, zero-padded
SequentialBlock(data, k, n) ==
    [i \in 1..n |-> IF (k - 1) * n + i <= Len(data) THEN data[(k - 1) * n + i] ELSE 0]

\* C1: once a pull of a cursor has returned paComplete, every later pull of
\* that cursor returns paComplete and a block of frame_count zeros.
C1_TerminalIdempotent ==
    [][\A c \in Streams :
         (Called(c) /\ flag[c] = paComplete)
            => /\ flag'[c] = paComplete
               /\ Len(out'[c]) = frame_count[c]
               /\ \A i \in 1..frame_count[c] : out'[c][i] = 0]_vars

\* a cursor over a non-empty buffer has returned paComplete three times, the
\* last time later on the wall clock than its first call
C1_Witness ==
    /\ completes[1] >= 3
    /\ flag[1] = paComplete
    /\ Len(channel_data[1]) > 0
    /\ now > start_time[1] + MaxReadGap

\* C2 as claimed: in every reachable state 0 <= position <= len(samples).
C2_PositionWithinBuffer ==
    \A c \in Streams : 0 <= position[c] /\ position[c] <= Len(channel_data[c])

\* C2 as amended: position is never negative; while no drift correction has
\* fired it stays below len(samples) + frame_count (the tail block advances it
\* by a whole frame_count); and it decreases only in a call that corrects drift.
C2_PositionBounds ==
    /\ [](\A c \in Streams :
            /\ 0 <= position[c]
            /\ corrections[c] = 0
                 => position[c] <= Len(channel_data[c]) + frame_count[c] - 1)
    /\ [][\A c \in Streams :
            position'[c] < position[c] => corrections'[c] = corrections[c] + 1]_vars

\* a cursor that never corrected drift stands beyond the end of its buffer
C2_Witness ==
    /\ corrections[1] = 0
    /\ pulls[1] >= 2
    /\ position[1] > Len(channel_data[1])
    /\ Len(channel_data[1]) > 0

\* C3 as claimed, for the frame_count the stream is opened with: a call that
\* finds abs(expected_position - position) > 2*frame_count leaves position at
\* expected_position + frame_count.
C3_SnapThenAdvance ==
    [][\A c \in Streams :
         (/\ Called(c)
          /\ frame_count[c] = buffer_size
          /\ Abs(CallExpected(c) - position[c]) > 2 * frame_count[c])
            => position'[c] = CallExpected(c) + frame_count[c]]_vars

\* C3 as amended: a call that finds abs(expected_position - position) >
\* 2*buffer_size leaves position at expected_position + frame_count and returns
\* paContinue when expected_position < len(samples); otherwise it leaves
\* position at expected_position and returns paComplete.
C3_SnapThenAdvanceOrEnd ==
    [][\A c \in Streams :
         (Called(c) /\ Abs(CallExpected(c) - position[c]) > 2 * buffer_size)
            => IF CallExpected(c) < Len(channel_data[c])
               THEN /\ position'[c] = CallExpected(c) + frame_count[c]
                    /\ flag'[c] = paContinue
               ELSE /\ position'[c] = CallExpected(c)
                    /\ flag'[c] = paComplete]_vars

\* the scenario: 8000 samples in blocks of 1024, the clock 3000 samples ahead
\* of the samples emitted at the 2nd pull, which snaps to 4024 and emits from there
C3_Witness ==
    /\ Len(channel_data[1]) = 8000
    /\ frame_count[1] = 1024
    /\ pulls[1] = 2
    /\ corrections[1] = 1
    /\ position[1] = 1024 + StallSamples + 1024
    /\ out[1][1] = 1024 + StallSamples + 1

\* C4: while no drift correction has fired, the k-th pull returns the k-th
\* block of frame_count samples (zero-padded at the tail) and leaves position
\* at k*frame_count, and paComplete is returned only after ceil(L/frame_count)
\* such pulls, with position at the end of the last block.
C4_SequentialCoverage ==
    \A c \in Streams :
        (corrections[c] = 0 /\ pulls[c] >= 1)
           => LET L == Len(channel_data[c])
                  n == frame_count[c]
              IN  IF flag[c] = paContinue
                  THEN /\ (pulls[c] - 1) * n < L
                       /\ position[c] = pulls[c] * n
                       /\ out[c] = SequentialBlock(channel_data[c], pulls[c], n)
                  ELSE /\ flag[c] = paComplete
                       /\ position[c] = CeilDiv(L, n) * n
                       /\ pulls[c] = CeilDiv(L, n) + completes[c]

\* three samples pulled in blocks of two without correction, to the end
C4_Witness ==
    /\ Len(channel_data[1]) = 3
    /\ frame_count[1] = 2
    /\ corrections[1] = 0
    /\ pulls[1] = 3
    /\ flag[1] = paComplete

\* C5: when frame_count does not divide L and no drift correction has fired,
\* the pull that reaches the end of the buffer returns paContinue and a block
\* of frame_count entries: the last L mod frame_count samples, then zeros.
C5_PaddingLaw ==
    \A c \in Streams :
        LET L == Len(channel_data[c])
            n == frame_count[c]
        IN  (/\ corrections[c] = 0
             /\ L % n # 0
             /\ completes[c] = 0
             /\ position[c] >= L)
               => /\ flag[c] = paContinue
                  /\ Len(out[c]) = n
                  /\ \A i \in 1..n :
                        out[c][i] = IF i <= L % n
                                    THEN channel_data[c][L - (L % n) + i]
                                    ELSE 0

\* the tail of 8000 samples in blocks of 1024: 832 samples, then 192 zeros
C5_Witness ==
    /\ Len(channel_data[1]) = 8000
    /\ frame_count[1] = 1024
    /\ corrections[1] = 0
    /\ pulls[1] = 8
    /\ flag[1] = paContinue
    /\ out[1][832] = 8000
    /\ out[1][833] = 0

\* C6 as claimed: with every call finding expected_position = position, the
\* pull number ceil(L/frame_count) returns paComplete.
C6_DoneAfterCeilPulls ==
    \A c \in Streams :
        (/\ instep[c]
         /\ pulls[c] >= 1
         /\ pulls[c] = CeilDiv(Len(channel_data[c]), frame_count[c]))
           => flag[c] = paComplete

\* C6 as amended: while every call finds expected_position = position, exactly
\* ceil(L/frame_count) pulls return paContinue, the next one (pull number
\* ceil(L/frame_count) + 1) is the first to return paComplete, and no drift
\* correction fires.
C6_InStepCompletion ==
    \A c \in Streams :
        (instep[c] /\ pulls[c] >= 1)
           => LET N == CeilDiv(Len(channel_data[c]), frame_count[c])
              IN  /\ corrections[c] = 0
                  /\ flag[c] = paContinue => pulls[c] <= N /\ completes[c] = 0
                  /\ flag[c] = paComplete => pulls[c] = N + completes[c]

\* 8000 samples in blocks of 1024 with the clock in step: 8 blocks, then done
C6_Witness ==
    /\ Len(channel_data[1]) = 8000
    /\ frame_count[1] = 1024
    /\ instep[1]
    /\ corrections[1] = 0
    /\ pulls[1] = 9
    /\ completes[1] = 1
    /\ flag[1] = paComplete
    /\ now >= start_time[1] + 8 * TicksFor(1024, sample_rate)

\* ---- properties of the session ----

\* C7: once a connect() has failed, no stream is ever created or started and
\* main never reaches the poll loop; and when main has returned, every device
\* whose connect() had returned True has received a disconnect() call.
C7_ConnectFailureAborts ==
    "connect" \in failed
       => /\ \A s \in Streams : stream[s] = "none" /\ ~ran[s] /\ starts[s] = 0
          /\ pc \notin PlayingPcs
          /\ pc = "returned" => \A d \in Devices : linked[d] => disconnects[d] >= 1

\* main has returned after device 2 failed to connect with device 1 connected
C7_Witness ==
    /\ "connect" \in failed
    /\ pc = "returned"
    /\ linked[1]
    /\ ~linked[2]
    /\ disconnects[1] = 1

\* C8 as claimed, in runs without a KeyboardInterrupt: once the device lookup
\* or the creation of a stream has failed, no stream has been started, and
\* when main has returned both devices have received a disconnect() call.
C8_SetupFailureAborts ==
    (failed \cap {"lookup", "create"} # {} /\ ~signalled)
       => /\ \A s \in Streams : ~ran[s]
          /\ pc = "returned" => \A d \in Devices : disconnects[d] >= 1

\* C9 as claimed: when main has ended after a KeyboardInterrupt delivered
\* between the return of the second start_stream() and the end of the cleanup,
\* both streams are closed and both devices have received a disconnect() call.
C9_InterruptCleansUp ==
    (interrupted /\ pc \in FinalPcs)
       => /\ \A s \in Streams : stream[s] = "closed"
          /\ \A d \in Devices : disconnects[d] >= 1

\* the channels the claim expects for the offset off: silence of
\* off * sample_rate / 1000 samples before one channel and after the other
ChannelsWithOffset(frames, rate, off) ==
    LET silence == Zeros((Abs(off) * rate) \div 1000)
    IN  IF off > 0
        THEN <<silence \o DecodedLeft(frames), DecodedRight(frames) \o silence>>
        ELSE <<DecodedLeft(frames) \o silence, silence \o DecodedRight(frames)>>

\* C10 as claimed: after main has loaded the file with a sync offset other
\* than 0, the channel buffers are the decoded channels with the silence of
\* the offset before one and after the other.
C10_OffsetApplied ==
    (pc # "load" /\ "load" \notin failed /\ sync_offset_arg # 0)
       => channel_data = ChannelsWithOffset(audio.frames, sample_rate, sync_offset_arg)

\* ---- C11 ----

CompletedNormally ==
    /\ pc = "returned"
    /\ failed = {}
    /\ \A s \in Streams : stream[s] = "closed"

\* C12 as claimed: the script exits with status 0 when playback completed or
\* was interrupted in the poll loop and the cleanup ran, and with a status
\* other than 0 when loading, connecting or the device lookup failed
C12_ExitCodes ==
    exit_code # None =>
        /\ CompletedNormally => exit_code = 0
        /\ failed \cap {"load", "connect", "lookup"} # {} => exit_code # 0

\* ---- C13 ----

\* main has attempted no connection, opened and started no stream, played nothing
NothingAttempted ==
    /\ \A d \in Devices :
          ~linked[d] /\ ~connected[d] /\ disconnects[d] = 0
    /\ "connect" \notin failed
    /\ \A s \in Streams :
          stream[s] = "none" /\ starts[s] = 0 /\ ~ran[s] /\ pulls[s] = 0

\* C13: when the file does not decode or does not have exactly two channels,
\* main, once past its loading step, has attempted nothing; and unless a
\* KeyboardInterrupt came first it has reported the load error and returned
C13_LoadFailureReturns ==
    (pc # "load" /\ (~audio.ok \/ audio.channels # 2)) =>
        /\ NothingAttempted
        /\ ~signalled => (pc = "returned" /\ "load" \in failed)

\* a mono file was refused, and main returned
C13_Witness ==
    /\ audio.ok
    /\ audio.channels = 1
    /\ pc = "returned"
    /\ "load" \in failed
    /\ ~signalled

\* ---- C14 ----

\* callback c printed "Correcting drift" and set position to expected_position
Snapped(c) == corrections'[c] = corrections[c] + 1

\* C14 as claimed: a call snaps exactly when abs(expected_position - position)
\* exceeds twice the frame_count of that call
C14_SnapIffTwoFrames ==
    [][\A c \in Streams :
         Called(c) =>
            (Snapped(c) <=> Abs(CallExpected(c) - position[c]) > 2 * frame_count[c])]_vars

\* C14 as amended: a call snaps exactly when abs(expected_position - position)
\* exceeds 2*buffer_size, whatever its frame_count; a snapping call continues
\* from expected_position, any other call from the position it found
C14_SnapIffTwoBuffers ==
    [][\A c \in Streams :
         Called(c) =>
            IF Abs(CallExpected(c) - position[c]) > 2 * buffer_size
            THEN /\ Snapped(c)
                 /\ position'[c] \in {CallExpected(c), CallExpected(c) + frame_count[c]}
            ELSE /\ ~Snapped(c)
                 /\ position'[c] \in {position[c], position[c] + frame_count[c]}]_vars

\* blocks of 1 frame: the 2nd call found the clock 3 samples ahead, more than
\* 2*frame_count, and went on from position 1 without a correction
C14_Witness ==
    /\ frame_count[1] = 1
    /\ pulls[1] = 2
    /\ corrections[1] = 0
    /\ position[1] = 2
    /\ ExpectedPosition(now - start_time[1], sample_rate) = 4

\* ---- C15 ----

\* C15 as claimed: a stream runs only once both sinks are connected, both
\* devices are found and both streams are created; stream 2 is started only
\* after start_stream() was issued to stream 1; and main is past its two
\* start_stream() calls only when both were issued
C15_StartOrdering ==
    /\ \A s \in Streams :
          ran[s] => /\ \A d \in Devices : linked[d]
                    /\ "lookup" \notin failed
                    /\ \A t \in Streams : stream[t] # "none"
    /\ ran[2] => starts[1] >= 1
    /\ pc \in PlayingPcs => \A s \in Streams : starts[s] >= 1

\* ---- C16 ----

\* both start_stream() calls have returned
PastStart == starts[2] >= 1 /\ "start" \notin failed
\* main has left the poll loop of lines 253-254
PastLoop == PastStart /\ pc # "poll"

\* C16 as claimed: without a KeyboardInterrupt, main is past the poll loop only
\* when no stream is active, a sink is disconnected only after both streams
\* were stopped and closed, and main returns with both sinks disconnected
C16_DrainThenRelease ==
    ~signalled =>
        /\ PastLoop => \A s \in Streams : ~IsActive(s)
        /\ (PastLoop /\ \E d \in Devices : disconnects[d] >= 1)
              => \A s \in Streams : stream[s] = "closed"
        /\ (PastLoop /\ pc = "returned") => \A d \in Devices : disconnects[d] >= 1

\* ---- C18 ----

\* both cursors returned paComplete, both streams are closed, both sinks were
\* disconnected and main returned
SessionClosed ==
    /\ \A s \in Streams : flag[s] = paComplete /\ stream[s] = "closed"
    /\ \A d \in Devices : disconnects[d] >= 1
    /\ pc = "returned"

\* C18 as claimed: once both start_stream() calls have returned, and unless a
\* KeyboardInterrupt is delivered, the session eventually is closed: both
\* cursors done, both streams closed, both sinks disconnected
C18_EventuallyClosed ==
    (PastStart /\ ~signalled) ~> (SessionClosed \/ signalled)

\* ---- C17 ----

\* C17: a call of one callback leaves the position and start_time of the other
\* callback and both sample arrays as they were; it sets its own start_time
\* when that is None and otherwise leaves it; and no step at all changes a
\* start_time that is set
C17_CursorsIndependent ==
    [][/\ \A c \in Streams :
            Called(c) =>
               /\ \A o \in Streams \ {c} :
                     position'[o] = position[o] /\ start_time'[o] = start_time[o]
               /\ channel_data' = channel_data
               /\ start_time[c] = None => start_time'[c] = now
       /\ \A c \in Streams :
            start_time[c] # None => start_time'[c] = start_time[c]]_vars

\* the two callbacks were called in turn: 1, then 2 a tick later, then 1 again
C17_Witness ==
    /\ pulls[1] = 2
    /\ pulls[2] = 1
    /\ start_time[1] # None
    /\ start_time[2] # None
    /\ start_time[1] < start_time[2]
    /\ flag[1] = paComplete
    /\ flag[2] = paContinue

\* ---- C19 ----

\* C19 as claimed, for runs without a KeyboardInterrupt: when main is over,
\* every stream that pa.open() returned has been closed
C19_OpenedStreamsClosed ==
    (pc \in FinalPcs /\ ~signalled) =>
        \A s \in Streams : stream[s] # "none" => stream[s] = "closed"

\* ---- C20 ----

\* C20 as claimed: when the last call was cleanup(), no directory made by a
\* separate() exists any more and self.temp_dir is None
C20_NoTempDirLeft ==
    last_call = "cleanup" => (tmp_dirs = {} /\ temp_dir = None)

====
